---- MODULE Spec2Model ----
(***************************************************************************)
(* Model of the client-side record store and auth flow of the AI study     *)
(* assistant (services/authService.ts): the users mapping serialized in    *)
(* localStorage, the session pointer in sessionStorage, and the            *)
(* operations signUp, login, logout, saveStudyPlan, getStudyPlanHistory.   *)
(*                                                                         *)
(* A storage area is a function from the keys present to their text.  A    *)
(* text is a record: [kind |-> "json", value |-> v] is the text that       *)
(* JSON.stringify(v) writes, [kind |-> "garbage"] a text JSON.parse        *)
(* rejects, [kind |-> "empty"] the empty string, [kind |-> "other"] a      *)
(* value some other script of the origin left behind.                      *)
(*                                                                         *)
(* A JavaScript exception is an outcome [ok |-> FALSE, error |-> message]. *)
(***************************************************************************)
EXTENDS Integers, Sequences, FiniteSets, TLC

VARIABLES localStorage, sessionStorage, last, registered, now, planner, tabs,
          view, worker

vars ==
    <<localStorage, sessionStorage, last, registered, now, planner, tabs, view,
      worker>>

\* ------------------------------------------------------------------ bounds

\* Longest stored plan list to which saveStudyPlan still adds a new plan.
MaxPlans == 2

\* The clock readings (Date.now, new Date) taken in one behaviour.
MaxNow == 2

\* The invocations of handleSendMessage in one behaviour of a chat view, and
\* the chunks of one response stream.
MaxCalls == 2

MaxChunks == 2

\* The invocations of handleSendMessage and the sessions started in one
\* behaviour of the tutor view.
MaxSends == 1

MaxStarts == 2

\* ------------------------------------------------------- program constants

USERS_KEY == "ai-study-assistant-users"

SESSION_KEY == "ai-study-assistant-session"

MinPasswordLength == 6

DuplicateUser == "User already exists."

WeakPassword == "Password must be at least 6 characters long."

InvalidCredentials == "Invalid username or password."

NotAuthenticated == "No user logged in."

\* What JSON.parse throws on a text that is not JSON.
SyntaxError == "SyntaxError"

\* The value getItem returns for a key that is not present.
Null == "<null>"

NoError == ""

\* ------------------------------------------------------------------ inputs

\* Property names every plain object inherits from Object.prototype; the
\* model carries the one that is also offered as a username.
ObjectPrototypeKeys == {"constructor"}

Usernames == {"alice", "bob", "constructor"}

\* Passwords as sequences of ASCII codes: "secre", "secret", "secret1".
PwSecre == <<115, 101, 99, 114, 101>>

PwSecret == <<115, 101, 99, 114, 101, 116>>

PwSecret1 == <<115, 101, 99, 114, 101, 116, 49>>

Passwords == {PwSecre, PwSecret, PwSecret1}

NoPassword == <<>>

\* ------------------------------------------------------------ storage area

EmptyStorage == <<>>

getItem(storage, key) ==
    IF key \in DOMAIN storage THEN storage[key] ELSE Null

hasItem(storage, key) == key \in DOMAIN storage

setItem(storage, key, text) ==
    [k \in DOMAIN storage \cup {key} |-> IF k = key THEN text ELSE storage[k]]

removeItem(storage, key) ==
    [k \in DOMAIN storage \ {key} |-> storage[k]]

JSONstringify(v) == [kind |-> "json", value |-> v]

Garbage == [kind |-> "garbage"]

EmptyText == [kind |-> "empty"]

OtherText == [kind |-> "other"]

\* JavaScript truthiness of a stored text: every string but "" is truthy.
TruthyText(text) == text.kind # "empty"

\* ------------------------------------------------------------ record store

\* A plain JavaScript object: its own properties, as a function from the
\* property names to the values.
EmptyObject == <<>>

\* obj[name] is truthy: name is an own property holding a record, or a
\* property inherited from Object.prototype (a function, always truthy).
truthyProperty(obj, name) ==
    name \in DOMAIN obj \/ name \in ObjectPrototypeKeys

\* obj[name] = value
setProperty(obj, name, value) ==
    [k \in DOMAIN obj \cup {name} |-> IF k = name THEN value ELSE obj[k]]

\* JSON.parse: the value of a JSON text, SyntaxError on any other text.
JSONparse(text) ==
    IF text.kind = "json"
    THEN [threw |-> FALSE, value |-> text.value]
    ELSE [threw |-> TRUE, value |-> EmptyObject]

\* const usersJson = localStorage.getItem(USERS_KEY);
\* return usersJson ? JSON.parse(usersJson) : {};
getUsers(local) ==
    IF hasItem(local, USERS_KEY) /\ TruthyText(local[USERS_KEY])
    THEN JSONparse(local[USERS_KEY])
    ELSE [threw |-> FALSE, value |-> EmptyObject]

saveUsers(local, users) == setItem(local, USERS_KEY, JSONstringify(users))

getCurrentUser(session) == getItem(session, SESSION_KEY)

\* !username for what getCurrentUser returned: null and "" are falsy.
falsyUsername(username) == username = Null \/ username = ""

\* ------------------------------------------------------------ hash utility

HexDigits ==
    <<"0", "1", "2", "3", "4", "5", "6", "7",
      "8", "9", "a", "b", "c", "d", "e", "f">>

\* b.toString(16).padStart(2, '0') for a byte b
toHex2(b) == <<HexDigits[(b \div 16) + 1], HexDigits[(b % 16) + 1]>>

\* TextEncoder.encode: the UTF-8 bytes; the passwords are ASCII, one byte
\* per character.
encode(password) == password

RECURSIVE mix(_, _, _)
mix(data, i, h) ==
    IF i > Len(data) THEN h
    ELSE mix(data, i + 1, (h * 33 + data[i]) % 65536)

\* crypto.subtle.digest: stands for SHA-256 by a deterministic two-byte
\* digest that is collision free on Passwords (DigestInjective below).
digest(data) ==
    LET h == mix(data, 1, 5381) IN <<h \div 256, h % 256>>

RECURSIVE joinHex(_, _)
joinHex(bytes, i) ==
    IF i > Len(bytes) THEN <<>>
    ELSE toHex2(bytes[i]) \o joinHex(bytes, i + 1)

simpleHash(password) == joinHex(digest(encode(password)), 1)

\* What user.passwordHash evaluates to when user is not a stored record.
UndefinedHash == <<>>

\* users[username].passwordHash
passwordHashOf(users, username) ==
    IF username \in DOMAIN users THEN users[username].passwordHash
    ELSE UndefinedHash

\* ---------------------------------------------------------------- outcomes

NoUser == ""

Return(local, session, ret) ==
    [local |-> local, session |-> session, ok |-> TRUE, error |-> NoError,
     ret |-> ret, history |-> <<>>]

Throw(local, session, message) ==
    [local |-> local, session |-> session, ok |-> FALSE, error |-> message,
     ret |-> NoUser, history |-> <<>>]

\* --------------------------------------------------------------- auth flow

newUser(username, passwordHash) ==
    [username |-> username,
     passwordHash |-> passwordHash,
     studyPlans |-> <<>>,
     tutorChatHistory |-> <<>>,
     companionChatHistory |-> <<>>]

\* signUp with its two checks in the other order.
signUpLengthFirst(local, session, username, password) ==
    LET got == getUsers(local) IN
    IF got.threw THEN Throw(local, session, SyntaxError)
    ELSE IF Len(password) < MinPasswordLength
    THEN Throw(local, session, WeakPassword)
    ELSE IF truthyProperty(got.value, username)
    THEN Throw(local, session, DuplicateUser)
    ELSE LET users == setProperty(got.value, username,
                          newUser(username, simpleHash(password)))
         IN Return(saveUsers(local, users),
                   setItem(session, SESSION_KEY, username),
                   username)

\* signUp writing a mapping that holds the new record only.
signUpFreshMapping(local, session, username, password) ==
    LET got == getUsers(local) IN
    IF got.threw THEN Throw(local, session, SyntaxError)
    ELSE IF truthyProperty(got.value, username)
    THEN Throw(local, session, DuplicateUser)
    ELSE IF Len(password) < MinPasswordLength
    THEN Throw(local, session, WeakPassword)
    ELSE LET users == setProperty(EmptyObject, username,
                          newUser(username, simpleHash(password)))
         IN Return(saveUsers(local, users),
                   setItem(session, SESSION_KEY, username),
                   username)

signUp(local, session, username, password) ==
    LET got == getUsers(local) IN
    IF got.threw THEN Throw(local, session, SyntaxError)
    ELSE IF truthyProperty(got.value, username)
    THEN Throw(local, session, DuplicateUser)
    ELSE IF Len(password) < MinPasswordLength
    THEN Throw(local, session, WeakPassword)
    ELSE LET passwordHash == simpleHash(password)
             users == setProperty(got.value, username,
                                  newUser(username, passwordHash))
         IN Return(saveUsers(local, users),
                   setItem(session, SESSION_KEY, username),
                   username)

\* login telling an unknown username from a wrong password.
loginTwoMessages(local, session, username, password) ==
    LET got == getUsers(local) IN
    IF got.threw THEN Throw(local, session, SyntaxError)
    ELSE IF ~truthyProperty(got.value, username)
    THEN Throw(local, session, "User not found.")
    ELSE IF passwordHashOf(got.value, username) # simpleHash(password)
    THEN Throw(local, session, InvalidCredentials)
    ELSE Return(local, setItem(session, SESSION_KEY, username), username)

login(local, session, username, password) ==
    LET got == getUsers(local) IN
    IF got.threw THEN Throw(local, session, SyntaxError)
    ELSE IF ~truthyProperty(got.value, username)
    THEN Throw(local, session, InvalidCredentials)
    ELSE IF passwordHashOf(got.value, username) # simpleHash(password)
    THEN Throw(local, session, InvalidCredentials)
    ELSE Return(local, setItem(session, SESSION_KEY, username), username)

\* logout without the write that puts the users text back.
logoutNoRestore(local, session) ==
    Return(EmptyStorage, EmptyStorage, NoUser)

\* sessionStorage.clear(); localStorage.clear(); then the users text read
\* before the clear is written back when it is truthy.
logout(local, session) ==
    LET users == getItem(local, USERS_KEY)
        kept == IF hasItem(local, USERS_KEY) /\ TruthyText(users)
                THEN setItem(EmptyStorage, USERS_KEY, users)
                ELSE EmptyStorage
    IN Return(kept, EmptyStorage, NoUser)

\* -------------------------------------------------------------- study plans

\* A task as stored: a bare string (the older format) or a Task object.
StringTask(text) == [type |-> "string", text |-> text]

Task(text, completed) ==
    [type |-> "object", text |-> text, completed |-> completed]

DailyTask(day, tasks) == [day |-> day, tasks |-> tasks]

WeeklyPlan(week, daily_tasks) ==
    [week |-> week, topic_focus |-> "focus", daily_tasks |-> daily_tasks]

StudyPlan(id, plan_title, weekly_plans) ==
    [id |-> id, plan_title |-> plan_title, weekly_plans |-> weekly_plans]

\* findIndex(p => p.id === id): the first position holding the id, 0 for
\* the -1 of the source (positions count from 1 here).
findIndex(studyPlans, id) ==
    IF \E i \in 1..Len(studyPlans) : studyPlans[i].id = id
    THEN CHOOSE i \in 1..Len(studyPlans) :
            /\ studyPlans[i].id = id
            /\ \A j \in 1..(i - 1) : studyPlans[j].id # id
    ELSE 0

\* upsertPlan with push in the place of unshift.
upsertPlanPush(studyPlans, plan) ==
    LET existingPlanIndex == findIndex(studyPlans, plan.id) IN
    IF existingPlanIndex > 0
    THEN [studyPlans EXCEPT ![existingPlanIndex] = plan]
    ELSE studyPlans \o <<plan>>

\* upsertPlan without the search for the id.
upsertPlanUnshift(studyPlans, plan) == <<plan>> \o studyPlans

\* studyPlans[existingPlanIndex] = plan, or studyPlans.unshift(plan)
upsertPlan(studyPlans, plan) ==
    LET existingPlanIndex == findIndex(studyPlans, plan.id) IN
    IF existingPlanIndex > 0
    THEN [studyPlans EXCEPT ![existingPlanIndex] = plan]
    ELSE <<plan>> \o studyPlans

TypeError == "TypeError"

\* saveStudyPlan without the check of the session pointer.
saveStudyPlanNoGuard(local, session, plan) ==
    LET username == getCurrentUser(session)
        got == getUsers(local)
    IN IF got.threw THEN Throw(local, session, SyntaxError)
       ELSE IF username \in DOMAIN got.value
       THEN LET user == got.value[username]
                updated == [user EXCEPT !.studyPlans = upsertPlan(@, plan)]
                users == setProperty(got.value, username, updated)
            IN Return(saveUsers(local, users), session, NoUser)
       ELSE Return(local, session, NoUser)

saveStudyPlan(local, session, plan) ==
    LET username == getCurrentUser(session) IN
    IF falsyUsername(username) THEN Throw(local, session, NotAuthenticated)
    ELSE LET got == getUsers(local) IN
         IF got.threw THEN Throw(local, session, SyntaxError)
         ELSE IF username \in DOMAIN got.value
         THEN LET user == got.value[username]
                  updated == [user EXCEPT
                                !.studyPlans = upsertPlan(@, plan)]
                  users == setProperty(got.value, username, updated)
              IN Return(saveUsers(local, users), session, NoUser)
         ELSE IF username \in ObjectPrototypeKeys
         THEN Throw(local, session, TypeError)
         ELSE Return(local, session, NoUser)

hasWeeklyPlans(plan) == "weekly_plans" \in DOMAIN plan

isString(task) == task.type = "string"

\* plan.weekly_plans.some(week => week.daily_tasks.some(day =>
\*     day.tasks.length > 0 && typeof day.tasks[0] === 'string'))
needsMigration(plan) ==
    \E w \in 1..Len(plan.weekly_plans) :
        \E d \in 1..Len(plan.weekly_plans[w].daily_tasks) :
            LET tasks == plan.weekly_plans[w].daily_tasks[d].tasks IN
            Len(tasks) > 0 /\ isString(tasks[1])

migrateTask(task) ==
    IF isString(task) THEN Task(task.text, FALSE) ELSE task

migrateDay(day) ==
    [day EXCEPT !.tasks = [i \in 1..Len(@) |-> migrateTask(@[i])]]

migrateWeek(week) ==
    [week EXCEPT !.daily_tasks = [i \in 1..Len(@) |-> migrateDay(@[i])]]

migratePlan(plan) ==
    IF ~hasWeeklyPlans(plan)
    THEN [id |-> plan.id, plan_title |-> plan.plan_title,
          weekly_plans |-> <<>>]
    ELSE IF needsMigration(plan)
    THEN [plan EXCEPT !.weekly_plans =
                          [i \in 1..Len(@) |-> migrateWeek(@[i])]]
    ELSE plan

ReturnHistory(local, session, history) ==
    [local |-> local, session |-> session, ok |-> TRUE, error |-> NoError,
     ret |-> NoUser, history |-> history]

\* getStudyPlanHistory that stores what it returns.
getStudyPlanHistoryWriteBack(local, session) ==
    LET username == getCurrentUser(session)
        got == getUsers(local)
    IN IF falsyUsername(username) \/ got.threw
            \/ username \notin DOMAIN got.value
       THEN ReturnHistory(local, session, <<>>)
       ELSE LET plans == got.value[username].studyPlans
                migrated == [i \in 1..Len(plans) |-> migratePlan(plans[i])]
            IN ReturnHistory(
                  saveUsers(local,
                     setProperty(got.value, username,
                        [got.value[username] EXCEPT
                            !.studyPlans = migrated])),
                  session, migrated)

getStudyPlanHistory(local, session) ==
    LET username == getCurrentUser(session) IN
    IF falsyUsername(username) THEN ReturnHistory(local, session, <<>>)
    ELSE LET got == getUsers(local) IN
         IF got.threw THEN Throw(local, session, SyntaxError)
         ELSE IF username \in DOMAIN got.value
         THEN LET plans == got.value[username].studyPlans IN
              ReturnHistory(local, session,
                            [i \in 1..Len(plans) |-> migratePlan(plans[i])])
         ELSE IF username \in ObjectPrototypeKeys
         THEN Throw(local, session, TypeError)
         ELSE ReturnHistory(local, session, <<>>)

\* ------------------------------------------------------------ input values

\* Plans as the planner builds them: every task is a Task object.
Plan1 ==
    StudyPlan("1", "Algebra",
        <<WeeklyPlan(1, <<DailyTask("Monday",
                            <<Task("read", FALSE), Task("solve", FALSE)>>)>>)>>)

Plan1Done ==
    StudyPlan("1", "Algebra",
        <<WeeklyPlan(1, <<DailyTask("Monday",
                            <<Task("read", TRUE), Task("solve", FALSE)>>)>>)>>)

Plan2 ==
    StudyPlan("2", "Optics",
        <<WeeklyPlan(1, <<DailyTask("Monday", <<Task("revise", FALSE)>>)>>)>>)

Plans == {Plan1, Plan1Done, Plan2}

NoPlan == [id |-> ""]

\* Plans as an earlier version stored them.
LegacyPlan ==
    StudyPlan("10", "Old",
        <<WeeklyPlan(1, <<DailyTask("Monday",
                            <<StringTask("read"), StringTask("solve")>>),
                          DailyTask("Tuesday", <<StringTask("test")>>)>>)>>)

\* The first day of the first week has no task.
LegacyPlanRestDay ==
    StudyPlan("11", "Old",
        <<WeeklyPlan(1, <<DailyTask("Monday", <<>>),
                          DailyTask("Tuesday",
                            <<StringTask("read"), StringTask("solve")>>)>>)>>)

\* A day group whose first task is an object and whose second is a string.
LegacyPlanMixedDay ==
    StudyPlan("12", "Old",
        <<WeeklyPlan(1, <<DailyTask("Monday",
                            <<Task("read", TRUE), StringTask("solve")>>)>>)>>)

\* A plan stored without weekly_plans.
LegacyPlanNoWeeks == [id |-> "13", plan_title |-> "Old"]

LegacyPlanLists ==
    {<<LegacyPlan, Plan1Done>>, <<LegacyPlanRestDay, LegacyPlanNoWeeks>>,
     <<LegacyPlanMixedDay>>}

\* The mapping an earlier session of the program left in localStorage: the
\* user "bob", registered with the password "secret".
LegacyUsers(studyPlans) ==
    setProperty(EmptyObject, "bob",
        [newUser("bob", simpleHash(PwSecret)) EXCEPT
            !.studyPlans = studyPlans])

OtherLocalKey == "theme"

OtherSessionKey == "draft"

\* ------------------------------------------------------------ initial state

UsersTexts == {JSONstringify(LegacyUsers(l)) : l \in LegacyPlanLists}

UnparsableTexts == {Garbage, EmptyText}

\* localStorage with or without a users text, and with an entry that
\* another script of the origin wrote.
LocalStorages(texts) ==
    LET base == {EmptyStorage}
                  \cup {setItem(EmptyStorage, USERS_KEY, t) : t \in texts}
    IN {setItem(b, OtherLocalKey, OtherText) : b \in base}

SessionStorages == {setItem(EmptyStorage, OtherSessionKey, "x")}

Observation(op, username, password, plan, r) ==
    [op |-> op, username |-> username, password |-> password, plan |-> plan,
     ok |-> r.ok, error |-> r.error, ret |-> r.ret, history |-> r.history]

NoCall ==
    [op |-> "none", username |-> NoUser, password |-> NoPassword,
     plan |-> NoPlan, ok |-> TRUE, error |-> NoError, ret |-> NoUser,
     history |-> <<>>]

\* The state of the StudyPlanner component when it mounts (its useState
\* initial values).
PlannerMounted ==
    [plan |-> NoPlan, isLoading |-> FALSE, error |-> NoError,
     isPlanSaved |-> FALSE]

\* The views and the clock, before any of them is used.
ViewsInit ==
    /\ now = 0
    /\ planner = PlannerMounted
    /\ tabs = <<>>
    /\ view = <<>>
    /\ worker = <<>>

ViewsUnchanged == UNCHANGED <<now, planner, tabs, view, worker>>

Init ==
    /\ localStorage \in LocalStorages(UsersTexts)
    /\ sessionStorage \in SessionStorages
    /\ last = NoCall
    /\ registered = EmptyObject
    /\ ViewsInit

\* The same, the users text possibly one that JSON.parse cannot read.
InitCorrupt ==
    /\ localStorage \in LocalStorages(UsersTexts \cup UnparsableTexts)
    /\ sessionStorage \in SessionStorages
    /\ last = NoCall
    /\ registered = EmptyObject
    /\ ViewsInit

\* ------------------------------------------------------------------ actions

Apply(op, username, password, plan, r) ==
    /\ localStorage' = r.local
    /\ sessionStorage' = r.session
    /\ last' = Observation(op, username, password, plan, r)
    /\ ViewsUnchanged

SignUp ==
    \E username \in Usernames, password \in Passwords :
        LET r == signUp(localStorage, sessionStorage, username, password) IN
        /\ Apply("signUp", username, password, NoPlan, r)
        /\ registered' = IF r.ok
                         THEN setProperty(registered, username, password)
                         ELSE registered

Login ==
    \E username \in Usernames, password \in Passwords :
        LET r == login(localStorage, sessionStorage, username, password) IN
        /\ Apply("login", username, password, NoPlan, r)
        /\ UNCHANGED registered

Logout ==
    /\ Apply("logout", NoUser, NoPassword, NoPlan,
             logout(localStorage, sessionStorage))
    /\ UNCHANGED registered

\* The plans stored for the user the session pointer names.
storedPlans(local, session) ==
    LET username == getCurrentUser(session)
        got == getUsers(local)
    IN IF ~got.threw /\ username \in DOMAIN got.value
       THEN got.value[username].studyPlans
       ELSE <<>>

SaveStudyPlan ==
    \E plan \in Plans :
        /\ \/ findIndex(storedPlans(localStorage, sessionStorage), plan.id) > 0
           \/ Len(storedPlans(localStorage, sessionStorage)) < MaxPlans
        /\ Apply("saveStudyPlan", NoUser, NoPassword, plan,
                 saveStudyPlan(localStorage, sessionStorage, plan))
        /\ UNCHANGED registered

GetStudyPlanHistory ==
    /\ Apply("getStudyPlanHistory", NoUser, NoPassword, NoPlan,
             getStudyPlanHistory(localStorage, sessionStorage))
    /\ UNCHANGED registered

Next ==
    \/ SignUp
    \/ Login
    \/ Logout
    \/ SaveStudyPlan
    \/ GetStudyPlanHistory

Spec == Init /\ [][Next]_vars

SpecCorrupt == InitCorrupt /\ [][Next]_vars

\* ------------------------------------------------------------ planner view

\* What the AI service returns for a plan request: tasks are strings.  The
\* day label is free text; the second answer uses one label twice in a week.
RawPlanTwoWeeks ==
    [plan_title |-> "Roadmap",
     weekly_plans |->
        <<WeeklyPlan(1, <<DailyTask("Monday",
                            <<StringTask("read"), StringTask("solve")>>)>>),
          WeeklyPlan(2, <<DailyTask("Monday", <<StringTask("test")>>)>>)>>]

RawPlanSameLabel ==
    [plan_title |-> "Sprint",
     weekly_plans |->
        <<WeeklyPlan(1, <<DailyTask("Monday", <<StringTask("read")>>),
                          DailyTask("Monday", <<StringTask("solve")>>)>>)>>]

RawPlans == {RawPlanTwoWeeks, RawPlanSameLabel}

\* generateStudyPlan: every task text becomes {text, completed: false}.
generateStudyPlan(parsedPlan) ==
    [parsedPlan EXCEPT !.weekly_plans =
        [w \in 1..Len(@) |->
            [@[w] EXCEPT !.daily_tasks =
                [d \in 1..Len(@) |->
                    [@[d] EXCEPT !.tasks =
                        [t \in 1..Len(@) |-> Task(@[t].text, FALSE)]]]]]]

\* newPlan = {...result, id: Date.now().toString(), ...}
newPlan(result, time) ==
    StudyPlan(ToString(time), result.plan_title, result.weekly_plans)

\* JSON.parse(JSON.stringify(plan))
deepCopy(plan) == JSONparse(JSONstringify(plan)).value

\* week.daily_tasks.find(d => d.day === day): the position of the first
\* group with the label, 0 when there is none.
findDay(daily_tasks, day) ==
    IF \E d \in 1..Len(daily_tasks) : daily_tasks[d].day = day
    THEN CHOOSE d \in 1..Len(daily_tasks) :
            /\ daily_tasks[d].day = day
            /\ \A e \in 1..(d - 1) : daily_tasks[e].day # day
    ELSE 0

\* handleToggleTask with a flag that is set instead of flipped.
toggleTaskSet(plan, weekIndex, day, taskIndex) ==
    IF weekIndex \notin 1..Len(plan.weekly_plans)
    THEN [changed |-> FALSE, plan |-> plan]
    ELSE LET d == findDay(plan.weekly_plans[weekIndex].daily_tasks, day) IN
         IF d = 0 \/ taskIndex \notin
                1..Len(plan.weekly_plans[weekIndex].daily_tasks[d].tasks)
         THEN [changed |-> FALSE, plan |-> plan]
         ELSE [changed |-> TRUE,
               plan |-> [deepCopy(plan) EXCEPT
                    !.weekly_plans[weekIndex].daily_tasks[d]
                        .tasks[taskIndex].completed = TRUE]]

\* The plan handleToggleTask builds: a deep copy with the completed flag of
\* task taskIndex of the first group labelled day in week weekIndex flipped;
\* changed is FALSE when the handler returns without setPlan and save.
toggleTask(plan, weekIndex, day, taskIndex) ==
    IF weekIndex \notin 1..Len(plan.weekly_plans)
    THEN [changed |-> FALSE, plan |-> plan]
    ELSE LET d == findDay(plan.weekly_plans[weekIndex].daily_tasks, day) IN
         IF d = 0 \/ taskIndex \notin
                1..Len(plan.weekly_plans[weekIndex].daily_tasks[d].tasks)
         THEN [changed |-> FALSE, plan |-> plan]
         ELSE [changed |-> TRUE,
               plan |-> [deepCopy(plan) EXCEPT
                    !.weekly_plans[weekIndex].daily_tasks[d]
                        .tasks[taskIndex].completed = ~@]]

\* What a step of the planner view did: the handler, the checkbox that was
\* clicked (week, day group and task, counted from 1), the plan displayed
\* before the step, and whether the step before was a click on the same
\* checkbox.
PlannerCall(op, weekIndex, group, taskIndex, repeat) ==
    [op |-> op, weekIndex |-> weekIndex, group |-> group,
     taskIndex |-> taskIndex, before |-> planner.plan, repeat |-> repeat]

\* The planner of alice, who has just signed up in a fresh browser.
InitPlanner ==
    LET r == signUp(setItem(EmptyStorage, OtherLocalKey, OtherText),
                    EmptyStorage, "alice", PwSecret)
    IN /\ localStorage = r.local
       /\ sessionStorage = r.session
       /\ last = NoCall
       /\ registered = setProperty(EmptyObject, "alice", PwSecret)
       /\ ViewsInit

\* handleGeneratePlan up to its await.
HandleGeneratePlan ==
    /\ ~planner.isLoading
    /\ now < MaxNow
    /\ planner' = [plan |-> NoPlan, isLoading |-> TRUE, error |-> NoError,
                   isPlanSaved |-> FALSE]
    /\ last' = PlannerCall("handleGeneratePlan", 0, 0, 0, FALSE)
    /\ UNCHANGED <<localStorage, sessionStorage, registered, now, tabs, view,
                   worker>>

\* The AI service answers: setPlan(newPlan), then the finally block.  The
\* clock is read once; it need not have advanced since the last reading.
GeneratePlanResolved ==
    /\ planner.isLoading
    /\ \E raw \in RawPlans :
        /\ now' \in {now, now + 1}
        /\ planner' = [planner EXCEPT
                         !.plan = newPlan(generateStudyPlan(raw), now'),
                         !.isLoading = FALSE]
    /\ last' = PlannerCall("generatePlanResolved", 0, 0, 0, FALSE)
    /\ UNCHANGED <<localStorage, sessionStorage, registered, tabs, view,
                   worker>>

\* The AI request fails: the catch block, then the finally block.
GeneratePlanRejected ==
    /\ planner.isLoading
    /\ planner' = [planner EXCEPT !.error = "Failed to generate study plan.",
                                  !.isLoading = FALSE]
    /\ last' = PlannerCall("generatePlanRejected", 0, 0, 0, FALSE)
    /\ UNCHANGED <<localStorage, sessionStorage, registered, now, tabs, view,
                   worker>>

HandleSavePlan ==
    /\ planner.plan # NoPlan
    /\ ~planner.isPlanSaved
    /\ LET r == saveStudyPlan(localStorage, sessionStorage, planner.plan) IN
        /\ localStorage' = r.local
        /\ sessionStorage' = r.session
        /\ planner' = IF r.ok
                      THEN [planner EXCEPT !.isPlanSaved = TRUE]
                      ELSE [planner EXCEPT
                              !.error = "Could not save the plan."]
    /\ last' = PlannerCall("handleSavePlan", 0, 0, 0, FALSE)
    /\ UNCHANGED <<registered, now, tabs, view, worker>>

\* A click on the checkbox of task taskIndex of day group `group` of week
\* weekIndex: the card passes the label of the group to handleToggleTask.
HandleToggleTask ==
    /\ planner.plan # NoPlan
    /\ \E weekIndex \in 1..Len(planner.plan.weekly_plans) :
       \E group \in 1..Len(planner.plan.weekly_plans[weekIndex].daily_tasks) :
       \E taskIndex \in 1..Len(planner.plan.weekly_plans[weekIndex]
                                  .daily_tasks[group].tasks) :
        LET day == planner.plan.weekly_plans[weekIndex].daily_tasks[group].day
            t == toggleTask(planner.plan, weekIndex, day, taskIndex)
            r == saveStudyPlan(localStorage, sessionStorage, t.plan)
        IN /\ planner' = [planner EXCEPT !.plan = t.plan]
           /\ localStorage' = IF t.changed THEN r.local ELSE localStorage
           /\ sessionStorage' = IF t.changed THEN r.session
                                ELSE sessionStorage
           /\ last' = PlannerCall("handleToggleTask", weekIndex, group,
                         taskIndex,
                         /\ last.op = "handleToggleTask"
                         /\ last.weekIndex = weekIndex
                         /\ last.group = group
                         /\ last.taskIndex = taskIndex)
    /\ UNCHANGED <<registered, now, tabs, view, worker>>

NextPlanner ==
    \/ HandleGeneratePlan
    \/ GeneratePlanResolved
    \/ GeneratePlanRejected
    \/ HandleSavePlan
    \/ HandleToggleTask

SpecPlanner == InitPlanner /\ [][NextPlanner]_vars

\* -------------------------------------------------------------- chat store

\* The conversations a chat view hands to the store: the (curriculum,
\* subject) pairs of the tutor, and message lists of length 0 to 3.
ChatTopics ==
    {[curriculum |-> "JEE", subject |-> "Physics"],
     [curriculum |-> "NEET", subject |-> "Physics"]}

MessageLists ==
    LET greeting == [role |-> "model", text |-> "hello"]
        question == [role |-> "user", text |-> "why?"]
        answer == [role |-> "model", text |-> "because"]
    IN {<<>>, <<greeting>>, <<greeting, question>>,
        <<greeting, question, answer>>}

\* findIndex over (curriculum, subject), matching the subject alone.
findSessionBySubject(tutorChatHistory, chat) ==
    IF \E i \in 1..Len(tutorChatHistory) :
            tutorChatHistory[i].subject = chat.subject
    THEN CHOOSE i \in 1..Len(tutorChatHistory) :
            /\ tutorChatHistory[i].subject = chat.subject
            /\ \A j \in 1..(i - 1) :
                  tutorChatHistory[j].subject # chat.subject
    ELSE 0

\* tutorChatHistory.findIndex(s => s.curriculum === session.curriculum
\*                                 && s.subject === session.subject)
findSession(tutorChatHistory, chat) ==
    LET match(s) == /\ s.curriculum = chat.curriculum
                    /\ s.subject = chat.subject
    IN IF \E i \in 1..Len(tutorChatHistory) : match(tutorChatHistory[i])
       THEN CHOOSE i \in 1..Len(tutorChatHistory) :
               /\ match(tutorChatHistory[i])
               /\ \A j \in 1..(i - 1) : ~match(tutorChatHistory[j])
       ELSE 0

\* upsertSession with push in both branches.
upsertSessionPush(tutorChatHistory, newSession) ==
    tutorChatHistory \o <<newSession>>

\* tutorChatHistory[existingSessionIndex] = newSession, or push(newSession)
upsertSession(tutorChatHistory, newSession) ==
    LET existingSessionIndex == findSession(tutorChatHistory, newSession) IN
    IF existingSessionIndex > 0
    THEN [tutorChatHistory EXCEPT ![existingSessionIndex] = newSession]
    ELSE tutorChatHistory \o <<newSession>>

\* user.<list>, the empty list for a record of before the list existed.
listOf(user, name) == IF name \in DOMAIN user THEN user[name] ELSE <<>>

\* saveTutorChatSession that builds the record of the user anew around the
\* session it stores.
saveTutorChatSessionFresh(local, session, chat, time) ==
    LET username == getCurrentUser(session) IN
    IF falsyUsername(username) \/ Len(chat.messages) <= 1
    THEN Return(local, session, NoUser)
    ELSE LET got == getUsers(local) IN
         IF got.threw THEN Throw(local, session, SyntaxError)
         ELSE IF username \in DOMAIN got.value
         THEN LET user == got.value[username]
                  updated ==
                     setProperty(newUser(username, user.passwordHash),
                        "tutorChatHistory",
                        <<[curriculum |-> chat.curriculum,
                           subject |-> chat.subject,
                           messages |-> chat.messages,
                           lastUpdatedAt |-> time]>>)
              IN Return(saveUsers(local,
                           setProperty(got.value, username, updated)),
                        session, NoUser)
         ELSE Return(local, session, NoUser)

\* chat is {curriculum, subject, messages}; time is the reading of the clock
\* that becomes lastUpdatedAt.
saveTutorChatSession(local, session, chat, time) ==
    LET username == getCurrentUser(session) IN
    IF falsyUsername(username) \/ Len(chat.messages) <= 1
    THEN Return(local, session, NoUser)
    ELSE LET got == getUsers(local) IN
         IF got.threw THEN Throw(local, session, SyntaxError)
         ELSE IF username \in DOMAIN got.value
         THEN LET user == got.value[username]
                  newSession ==
                     [curriculum |-> chat.curriculum,
                      subject |-> chat.subject,
                      messages |-> chat.messages,
                      lastUpdatedAt |-> time]
                  updated ==
                     setProperty(user, "tutorChatHistory",
                        upsertSession(listOf(user, "tutorChatHistory"),
                                      newSession))
              IN Return(saveUsers(local,
                           setProperty(got.value, username, updated)),
                        session, NoUser)
         ELSE IF username \in ObjectPrototypeKeys
         THEN Return(saveUsers(local, got.value), session, NoUser)
         ELSE Return(local, session, NoUser)

\* user?.tutorChatHistory ?? []
getTutorChatHistory(local, session) ==
    LET username == getCurrentUser(session) IN
    IF falsyUsername(username) THEN ReturnHistory(local, session, <<>>)
    ELSE LET got == getUsers(local) IN
         IF got.threw THEN Throw(local, session, SyntaxError)
         ELSE IF username \in DOMAIN got.value
         THEN ReturnHistory(local, session,
                            listOf(got.value[username], "tutorChatHistory"))
         ELSE ReturnHistory(local, session, <<>>)

\* saveCompanionChatHistory that keeps what was stored and adds to it.
saveCompanionChatHistoryAppend(local, session, messages) ==
    LET username == getCurrentUser(session)
        got == getUsers(local)
    IN IF falsyUsername(username) \/ Len(messages) <= 1
            \/ got.threw \/ username \notin DOMAIN got.value
       THEN Return(local, session, NoUser)
       ELSE Return(saveUsers(local,
                     setProperty(got.value, username,
                        setProperty(got.value[username],
                           "companionChatHistory",
                           listOf(got.value[username],
                                  "companionChatHistory") \o messages))),
                   session, NoUser)

saveCompanionChatHistory(local, session, messages) ==
    LET username == getCurrentUser(session) IN
    IF falsyUsername(username) \/ Len(messages) <= 1
    THEN Return(local, session, NoUser)
    ELSE LET got == getUsers(local) IN
         IF got.threw THEN Throw(local, session, SyntaxError)
         ELSE IF username \in DOMAIN got.value
         THEN LET updated == setProperty(got.value[username],
                                "companionChatHistory", messages)
              IN Return(saveUsers(local,
                           setProperty(got.value, username, updated)),
                        session, NoUser)
         ELSE IF username \in ObjectPrototypeKeys
         THEN Return(saveUsers(local, got.value), session, NoUser)
         ELSE Return(local, session, NoUser)

\* user?.companionChatHistory ?? []
getCompanionChatHistory(local, session) ==
    LET username == getCurrentUser(session) IN
    IF falsyUsername(username) THEN ReturnHistory(local, session, <<>>)
    ELSE LET got == getUsers(local) IN
         IF got.threw THEN Throw(local, session, SyntaxError)
         ELSE IF username \in DOMAIN got.value
         THEN ReturnHistory(local, session,
                 listOf(got.value[username], "companionChatHistory"))
         ELSE ReturnHistory(local, session, <<>>)

\* A record written before the chat lists were added to User: both lists
\* are optional in the type.
LegacyChatUsers ==
    setProperty(EmptyObject, "bob",
        [username |-> "bob", passwordHash |-> simpleHash(PwSecret),
         studyPlans |-> <<>>])

\* A browser with no users text, or with the record of before the chats.
InitChats ==
    /\ localStorage \in LocalStorages({JSONstringify(LegacyChatUsers)})
    /\ sessionStorage \in SessionStorages
    /\ last = NoCall
    /\ registered = EmptyObject
    /\ ViewsInit

\* The accounts of the chat store: alice signs up, bob has the old record.
ChatSignUp ==
    \E username \in {"alice"} :
        LET r == signUp(localStorage, sessionStorage, username, PwSecret) IN
        /\ Apply("signUp", username, PwSecret, NoPlan, r)
        /\ registered' = IF r.ok
                         THEN setProperty(registered, username, PwSecret)
                         ELSE registered

ChatLogin ==
    \E username \in {"alice", "bob"} :
        /\ Apply("login", username, PwSecret, NoPlan,
                 login(localStorage, sessionStorage, username, PwSecret))
        /\ UNCHANGED registered

\* The call is observed with its argument in the plan field; the clock is
\* read for lastUpdatedAt.
SaveTutorChatSession ==
    \E topic \in ChatTopics, messages \in MessageLists :
        LET chat == [curriculum |-> topic.curriculum,
                     subject |-> topic.subject, messages |-> messages]
        IN /\ Apply("saveTutorChatSession", NoUser, NoPassword, chat,
                    saveTutorChatSession(localStorage, sessionStorage, chat,
                                         now))
           /\ UNCHANGED registered

SaveCompanionChatHistory ==
    \E messages \in MessageLists :
        /\ Apply("saveCompanionChatHistory", NoUser, NoPassword,
                 [messages |-> messages],
                 saveCompanionChatHistory(localStorage, sessionStorage,
                                          messages))
        /\ UNCHANGED registered

NextTutor ==
    \/ ChatSignUp
    \/ ChatLogin
    \/ Logout
    \/ SaveTutorChatSession

SpecTutor == InitChats /\ [][NextTutor]_vars

NextCompanion ==
    \/ ChatSignUp
    \/ ChatLogin
    \/ Logout
    \/ SaveCompanionChatHistory

SpecCompanion == InitChats /\ [][NextCompanion]_vars

\* -------------------------------------------------------------- retrieval

\* A record with both chat lists filled.
StoredChatUsers ==
    setProperty(EmptyObject, "bob",
        [newUser("bob", simpleHash(PwSecret)) EXCEPT
            !.tutorChatHistory =
                <<[curriculum |-> "JEE", subject |-> "Physics",
                   lastUpdatedAt |-> 0,
                   messages |->
                      <<[role |-> "model", text |-> "hello"],
                        [role |-> "user", text |-> "why?"]>>]>>,
            !.companionChatHistory =
                <<[role |-> "model", text |-> "hello"],
                  [role |-> "user", text |-> "why?"]>>])

\* Any users text, readable or not, in a tab with no session pointer or in
\* the tab of alice, whose record the users text does not hold (the browser
\* data was cleared, or another tab wrote the users text without it).
InitRead ==
    /\ localStorage \in
          LocalStorages(UsersTexts \cup UnparsableTexts
                           \cup {JSONstringify(LegacyChatUsers),
                                 JSONstringify(StoredChatUsers)})
    /\ sessionStorage \in
          SessionStorages
             \cup {setItem(s, SESSION_KEY, "alice") : s \in SessionStorages}
    /\ last = NoCall
    /\ registered = EmptyObject
    /\ ViewsInit

GetTutorChatHistory ==
    /\ Apply("getTutorChatHistory", NoUser, NoPassword, NoPlan,
             getTutorChatHistory(localStorage, sessionStorage))
    /\ UNCHANGED registered

GetCompanionChatHistory ==
    /\ Apply("getCompanionChatHistory", NoUser, NoPassword, NoPlan,
             getCompanionChatHistory(localStorage, sessionStorage))
    /\ UNCHANGED registered

GetCurrentUser ==
    /\ Apply("getCurrentUser", NoUser, NoPassword, NoPlan,
             Return(localStorage, sessionStorage,
                    getCurrentUser(sessionStorage)))
    /\ UNCHANGED registered

NextRead ==
    \/ ChatLogin
    \/ Logout
    \/ GetStudyPlanHistory
    \/ GetTutorChatHistory
    \/ GetCompanionChatHistory
    \/ GetCurrentUser

SpecRead == InitRead /\ [][NextRead]_vars

\* The three save operations together, in one tab.  The mapping holds the
\* old record of bob and a record of alice with all lists filled; alice has
\* another password than the one the tab types.
InitSaves ==
    /\ localStorage =
          saveUsers(setItem(EmptyStorage, OtherLocalKey, OtherText),
             setProperty(LegacyChatUsers, "alice",
                [StoredChatUsers["bob"] EXCEPT
                    !.username = "alice",
                    !.passwordHash = simpleHash(PwSecret1),
                    !.studyPlans = <<Plan2>>]))
    /\ sessionStorage \in SessionStorages
    /\ last = NoCall
    /\ registered = EmptyObject
    /\ ViewsInit

NextSaves ==
    \/ ChatSignUp
    \/ ChatLogin
    \/ Logout
    \/ SaveStudyPlan
    \/ SaveTutorChatSession
    \/ SaveCompanionChatHistory

SpecSaves == InitSaves /\ [][NextSaves]_vars

\* ------------------------------------------------------------------- tabs

\* Two tabs of one browser share localStorage; each has its own
\* sessionStorage.  Inside a tab a save runs without interruption; between
\* tabs nothing orders the getItem of one and the setItem of the other.
Tabs == {"tab1", "tab2"}

\* saveUsers of a record store that reads the users text again when it
\* writes.
writeBackMerged(local, users, session, plan) ==
    saveStudyPlan(local, session, plan).local

\* The rest of saveStudyPlan after users = getUsers(): the plan is put in
\* the mapping that was read, and saveUsers writes that mapping over
\* whatever the users text holds by then.
writeBack(local, users, session, plan) ==
    LET r == saveStudyPlan(saveUsers(local, users), session, plan) IN
    IF r.ok /\ getCurrentUser(session) \in DOMAIN users
    THEN r.local ELSE local

\* alice has signed up in one tab and opened the app in a second one.
InitTabs ==
    LET r == signUp(setItem(EmptyStorage, OtherLocalKey, OtherText),
                    EmptyStorage, "alice", PwSecret)
    IN /\ localStorage = r.local
       /\ sessionStorage = r.session
       /\ last = NoCall
       /\ registered = setProperty(EmptyObject, "alice", PwSecret)
       /\ now = 0
       /\ planner = PlannerMounted
       /\ worker = <<>>
       /\ view = <<>>
       /\ tabs = [t \in Tabs |->
                    [session |-> r.session, pc |-> "idle",
                     users |-> EmptyObject, plan |-> NoPlan, saved |-> {}]]

\* saveStudyPlan in tab t up to and including users = getUsers().
TabRead(t) ==
    /\ tabs[t].pc = "idle"
    /\ ~falsyUsername(getCurrentUser(tabs[t].session))
    /\ \E plan \in Plans \ tabs[t].saved :
        tabs' = [tabs EXCEPT ![t].pc = "read",
                             ![t].users = getUsers(localStorage).value,
                             ![t].plan = plan]
    /\ last' = [op |-> "read", tab |-> t]
    /\ UNCHANGED <<localStorage, sessionStorage, registered, now, planner,
                   view, worker>>

\* saveStudyPlan in tab t from there to its end.
TabWrite(t) ==
    /\ tabs[t].pc = "read"
    /\ localStorage' = writeBack(localStorage, tabs[t].users,
                                 tabs[t].session, tabs[t].plan)
    /\ tabs' = [tabs EXCEPT ![t].pc = "idle",
                            ![t].saved = @ \cup {tabs[t].plan}]
    /\ last' = [op |-> "write", tab |-> t]
    /\ UNCHANGED <<sessionStorage, registered, now, planner, view, worker>>

NextTabs == \E t \in Tabs : TabRead(t) \/ TabWrite(t)

SpecTabs == InitTabs /\ [][NextTabs]_vars

\* -------------------------------------------------------------- chat view

\* The companion chat (GeneralChat).  A text is a sequence of characters, so
\* that += is \o.  view.calls holds one entry for every invocation of
\* handleSendMessage: where it stands (pc), the locals it keeps across its
\* awaits (text, image, responseText), and two records of what happened to
\* it: the chunks that arrived, and the position of the model message it
\* appended (slot, 0 before that).
\* The text of the k-th chunk of a response stream.
chunkText(k) == <<ToString(k)>>

ChatMessage(role, text, image) ==
    [role |-> role, text |-> text, image |-> image]

\* The view after its mount effect, for a user without a stored history.
InitChat ==
    LET r == signUp(setItem(EmptyStorage, OtherLocalKey, OtherText),
                    EmptyStorage, "alice", PwSecret)
    IN /\ localStorage = r.local
       /\ sessionStorage = r.session
       /\ last = NoCall
       /\ registered = setProperty(EmptyObject, "alice", PwSecret)
       /\ now = 0
       /\ planner = PlannerMounted
       /\ worker = <<>>
       /\ tabs = <<>>
       /\ view = [messages |-> <<ChatMessage("model", <<"h", "i">>, FALSE)>>,
                  input |-> <<>>, selectedImage |-> FALSE,
                  isTyping |-> FALSE, calls |-> <<>>]

ChatFrame ==
    UNCHANGED <<localStorage, sessionStorage, registered, now, planner, tabs,
                worker>>

\* handleSendMessage from the end of the image conversion to the await of
\* getGeneralChatResponseStream, for invocation i: the user message is
\* appended, the input cleared, isTyping set and the request issued.
sendStart(v, i) ==
    [v EXCEPT !.messages = @ \o <<ChatMessage("user", v.calls[i].text,
                                              v.calls[i].image)>>,
              !.input = <<>>,
              !.selectedImage = FALSE,
              !.isTyping = TRUE,
              !.calls[i].pc = "opening"]

\* onChange of the textarea, which is disabled while isTyping.
TypeInput ==
    /\ ~view.isTyping
    /\ view.input = <<>>
    /\ view' = [view EXCEPT !.input = <<"q">>]
    /\ last' = [op |-> "typeInput", call |-> 0]
    /\ ChatFrame

\* The attach button is disabled while isTyping or with an image selected.
HandleImageSelect ==
    /\ ~view.isTyping
    /\ ~view.selectedImage
    /\ view' = [view EXCEPT !.selectedImage = TRUE]
    /\ last' = [op |-> "handleImageSelect", call |-> 0]
    /\ ChatFrame

\* A click on Send or Enter in the textarea: the guard, then the handler up
\* to its first await, which is the image conversion when an image is
\* selected.
HandleSendMessage ==
    /\ ~((view.input = <<>> /\ ~view.selectedImage) \/ view.isTyping)
    /\ Len(view.calls) < MaxCalls
    /\ LET i == Len(view.calls) + 1
           entered == [view EXCEPT !.calls = @ \o
                         <<[pc |-> "converting", text |-> view.input,
                            image |-> view.selectedImage,
                            responseText |-> <<>>, chunks |-> <<>>,
                            slot |-> 0]>>]
       IN /\ view' = IF view.selectedImage THEN entered
                     ELSE sendStart(entered, i)
          /\ last' = [op |-> "handleSendMessage", call |-> i]
    /\ ChatFrame

\* fileToDataUrl resolves.
ImageConverted(i) ==
    /\ i \in DOMAIN view.calls
    /\ view.calls[i].pc = "converting"
    /\ view' = sendStart(view, i)
    /\ last' = [op |-> "imageConverted", call |-> i]
    /\ ChatFrame

\* fileToDataUrl rejects: the handler returns.
ImageFailed(i) ==
    /\ i \in DOMAIN view.calls
    /\ view.calls[i].pc = "converting"
    /\ view' = [view EXCEPT !.calls[i].pc = "done"]
    /\ last' = [op |-> "imageFailed", call |-> i]
    /\ ChatFrame

\* The stream is open: the empty model message is appended.
StreamOpened(i) ==
    /\ i \in DOMAIN view.calls
    /\ view.calls[i].pc = "opening"
    /\ view' = [view EXCEPT
                  !.messages = @ \o <<ChatMessage("model", <<>>, FALSE)>>,
                  !.calls[i].pc = "streaming",
                  !.calls[i].slot = Len(view.messages) + 1]
    /\ last' = [op |-> "streamOpened", call |-> i]
    /\ ChatFrame

\* A chunk arrives: responseText += chunk.text, and the last element of the
\* list becomes the model message with responseText.
Chunk(i) ==
    /\ i \in DOMAIN view.calls
    /\ view.calls[i].pc = "streaming"
    /\ Len(view.calls[i].chunks) < MaxChunks
    /\ LET chunk == chunkText(Len(view.calls[i].chunks) + 1)
           responseText == view.calls[i].responseText \o chunk
       IN view' = [view EXCEPT
                   !.messages[Len(view.messages)] =
                       ChatMessage("model", responseText, FALSE),
                   !.calls[i].responseText = responseText,
                   !.calls[i].chunks = Append(@, chunk)]
    /\ last' = [op |-> "chunk", call |-> i]
    /\ ChatFrame

\* The stream ends: the finally block.
StreamEnd(i) ==
    /\ i \in DOMAIN view.calls
    /\ view.calls[i].pc = "streaming"
    /\ view' = [view EXCEPT !.isTyping = FALSE, !.calls[i].pc = "done"]
    /\ last' = [op |-> "streamEnd", call |-> i]
    /\ ChatFrame

\* The request or the stream fails: the catch block, then the finally block.
StreamFailed(i) ==
    /\ i \in DOMAIN view.calls
    /\ view.calls[i].pc \in {"opening", "streaming"}
    /\ view' = [view EXCEPT
                  !.messages = @ \o
                      <<ChatMessage("model", <<"e", "r", "r">>, FALSE)>>,
                  !.isTyping = FALSE,
                  !.calls[i].pc = "done"]
    /\ last' = [op |-> "streamFailed", call |-> i]
    /\ ChatFrame

NextChat ==
    \/ TypeInput
    \/ HandleImageSelect
    \/ HandleSendMessage
    \/ \E i \in 1..MaxCalls :
        \/ ImageConverted(i)
        \/ ImageFailed(i)
        \/ StreamOpened(i)
        \/ Chunk(i)
        \/ StreamEnd(i)
        \/ StreamFailed(i)

SpecChat == InitChat /\ [][NextChat]_vars

\* --------------------------------------------------------- sign-up in tabs

\* Two tabs of a browser that holds no users text, both showing the
\* sign-up form.
InitRace ==
    /\ localStorage = setItem(EmptyStorage, OtherLocalKey, OtherText)
    /\ sessionStorage = EmptyStorage
    /\ last = NoCall
    /\ registered = EmptyObject
    /\ now = 0
    /\ planner = PlannerMounted
    /\ worker = <<>>
    /\ view = <<>>
    /\ tabs = [t \in Tabs |->
                 [session |-> EmptyStorage, pc |-> "idle",
                  users |-> EmptyObject, plan |-> NoPlan, saved |-> {},
                  username |-> NoUser]]

\* signUp in tab t up to its await of simpleHash: the mapping is read and
\* the two checks are made.  The form is shown to a tab without a session.
TabSignUpBegin(t) ==
    /\ tabs[t].pc = "idle"
    /\ falsyUsername(getCurrentUser(tabs[t].session))
    /\ \E username \in {"alice", "bob"} :
        LET users == getUsers(localStorage).value IN
        /\ tabs' = IF truthyProperty(users, username) THEN tabs
                   ELSE [tabs EXCEPT ![t].pc = "hashing",
                                     ![t].users = users,
                                     ![t].username = username]
        /\ last' = [op |-> "signUpBegin", tab |-> t, username |-> username]
    /\ UNCHANGED <<localStorage, sessionStorage, registered, now, planner,
                   view, worker>>

\* signUp in tab t after the digest: the record is put in the mapping that
\* was read, the mapping is written and the session pointer of the tab set.
TabSignUpEnd(t) ==
    /\ tabs[t].pc = "hashing"
    /\ LET r == signUp(saveUsers(localStorage, tabs[t].users),
                       tabs[t].session, tabs[t].username, PwSecret)
       IN /\ localStorage' = r.local
          /\ tabs' = [tabs EXCEPT ![t].pc = "idle",
                                  ![t].session = r.session]
    /\ last' = [op |-> "signUpEnd", tab |-> t,
                username |-> tabs[t].username]
    /\ UNCHANGED <<sessionStorage, registered, now, planner, view, worker>>

NextRace ==
    \E t \in Tabs :
        \/ TabSignUpBegin(t)
        \/ TabSignUpEnd(t)
        \/ TabRead(t)
        \/ TabWrite(t)

SpecRace == InitRace /\ [][NextRace]_vars

\* ------------------------------------------------------------- tutor view

\* The tutor chat (TutorChat) of alice in one tab.  The view has the fields
\* of the companion chat and isSessionStarted, isFormatting, details (the
\* pair in sessionDetailsRef) and formatOf (the text handleFormatCode sent
\* to formatCode).  An image that is undefined is FALSE, so that a message
\* reads the same before JSON.stringify and after JSON.parse.  Three fields
\* record what happened: mounted, starts (the sessions started), left (for every pair the messages the view
\* held at the last Change Topic of that pair, <<>> if none) and stale (the
\* invocations whose request was issued or whose stream was open at a Change
\* Topic, each with the pair of the session that was left).
Greeting == ChatMessage("model", <<"h", "i">>, FALSE)

\* What formatCode resolves to: the code of the reply's fenced block.
FormattedCode == <<"f">>

InitTutorView ==
    LET r == signUp(setItem(EmptyStorage, OtherLocalKey, OtherText),
                    EmptyStorage, "alice", PwSecret)
    IN /\ localStorage = r.local
       /\ sessionStorage = r.session
       /\ last = NoCall
       /\ registered = setProperty(EmptyObject, "alice", PwSecret)
       /\ now = 0
       /\ planner = PlannerMounted
       /\ worker = <<>>
       /\ tabs = <<>>
       /\ view = [messages |-> <<>>, input |-> <<>>,
                  selectedImage |-> FALSE, isTyping |-> FALSE,
                  calls |-> <<>>, isSessionStarted |-> FALSE,
                  isFormatting |-> FALSE, formatOf |-> <<>>,
                  details |-> [curriculum |-> "Programming Help",
                               subject |-> "subjects[0]"],
                  mounted |-> TRUE, starts |-> 0,
                  left |-> [t \in ChatTopics |-> <<>>],
                  stale |-> {}]

\* saveTutorChatSession({...sessionDetailsRef.current,
\*                       messages: messagesRef.current})
saveView(local, session, v, time) ==
    saveTutorChatSession(local, session,
        [curriculum |-> v.details.curriculum, subject |-> v.details.subject,
         messages |-> v.messages], time)

\* The user picks a pair in the TopicSelector and clicks Start Session, a
\* button of the screen that is rendered while no session is started.
HandleStartSession ==
    \E topic \in ChatTopics :
        /\ view.mounted
        /\ ~view.isSessionStarted
        /\ view.starts < MaxStarts
        /\ LET history ==
                  getTutorChatHistory(localStorage, sessionStorage).history
               found == findSession(history, topic)
           IN view' = [view EXCEPT
                  !.details = topic,
                  !.isSessionStarted = TRUE,
                  !.starts = @ + 1,
                  !.messages =
                      IF found > 0 /\ Len(history[found].messages) > 0
                      THEN history[found].messages
                      ELSE <<Greeting>>]
        /\ last' = [op |-> "handleStartSession", call |-> 0]
        /\ ChatFrame

\* handleChangeTopic that does not save.
HandleChangeTopicNoSave ==
    /\ view.mounted
    /\ view.isSessionStarted
    /\ view' = [view EXCEPT
          !.isSessionStarted = FALSE,
          !.left[view.details] = view.messages,
          !.stale = @ \cup
              {[call |-> i, topic |-> view.details] :
                 i \in {j \in DOMAIN view.calls :
                          view.calls[j].pc \in {"opening", "streaming"}}}]
    /\ last' = [op |-> "handleChangeTopic", call |-> 0]
    /\ UNCHANGED <<localStorage, sessionStorage, registered, now, planner,
                   tabs, worker>>

\* A click on Change Topic, a button that is enabled whenever a session is
\* started: the handler saves, and the cleanup of the effect on
\* isSessionStarted, which runs with the re-render, saves again.
HandleChangeTopic ==
    /\ view.mounted
    /\ view.isSessionStarted
    /\ LET r1 == saveView(localStorage, sessionStorage, view, now)
           r2 == saveView(r1.local, r1.session, view, now)
       IN localStorage' = r2.local
    /\ view' = [view EXCEPT
          !.isSessionStarted = FALSE,
          !.left[view.details] = view.messages,
          !.stale = @ \cup
              {[call |-> i, topic |-> view.details] :
                 i \in {j \in DOMAIN view.calls :
                          view.calls[j].pc \in {"opening", "streaming"}}}]
    /\ last' = [op |-> "handleChangeTopic", call |-> 0]
    /\ UNCHANGED <<sessionStorage, registered, now, planner, tabs, worker>>

\* A click on Format Code: the guard, then the handler up to its await.
HandleFormatCode ==
    /\ view.mounted
    /\ view.isSessionStarted
    /\ ~(view.input = <<>> \/ view.isFormatting \/ view.isTyping)
    /\ view' = [view EXCEPT !.isFormatting = TRUE, !.formatOf = view.input]
    /\ last' = [op |-> "handleFormatCode", call |-> 0]
    /\ ChatFrame

\* formatCode resolves (setInput, then the finally block) or rejects (the
\* catch block, which logs to the console, then the finally block).
FormatSettled ==
    \E resolved \in BOOLEAN :
        /\ view.mounted
        /\ view.isFormatting
        /\ view' = [view EXCEPT
              !.input = IF resolved THEN FormattedCode ELSE @,
              !.isFormatting = FALSE]
        /\ last' = [op |-> IF resolved THEN "formatResolved"
                           ELSE "formatRejected",
                    call |-> 0]
        /\ ChatFrame

\* The view is unmounted: a click on another view of the navigation bar, or
\* handleLogout, which calls logout() before it sets the state that unmounts
\* the view.  The cleanup of the effect on isSessionStarted saves when a
\* session is started.  What the handlers in flight set afterwards is lost.
Unmount ==
    \E byLogout \in BOOLEAN :
        /\ view.mounted
        /\ LET session == IF byLogout
                          THEN logout(localStorage, sessionStorage).session
                          ELSE sessionStorage
               r == saveView(localStorage, session, view, now)
           IN /\ sessionStorage' = session
              /\ localStorage' = IF view.isSessionStarted THEN r.local
                                 ELSE localStorage
        /\ view' = [view EXCEPT
              !.mounted = FALSE,
              !.isTyping = FALSE,
              !.isFormatting = FALSE,
              !.calls = [i \in DOMAIN view.calls |->
                            [view.calls[i] EXCEPT !.pc = "done"]]]
        /\ last' = [op |-> IF byLogout THEN "handleLogout" ELSE "switchView",
                    call |-> 0]
        /\ UNCHANGED <<registered, now, planner, tabs, worker>>

\* The textarea, the attach button and Send are rendered in a started
\* session and are disabled while isFormatting as well; handleSendMessage
\* has isFormatting in its guard.
NextTutorView ==
    \/ HandleStartSession
    \/ HandleChangeTopic
    \/ HandleFormatCode
    \/ FormatSettled
    \/ Unmount
    \/ (view.mounted /\ view.isSessionStarted /\ ~view.isFormatting
           /\ TypeInput)
    \/ (view.mounted /\ view.isSessionStarted /\ ~view.isFormatting
           /\ HandleImageSelect)
    \/ (view.mounted /\ view.isSessionStarted /\ ~view.isFormatting
           /\ Len(view.calls) < MaxSends /\ HandleSendMessage)
    \/ \E i \in 1..MaxCalls :
        \/ ImageConverted(i)
        \/ ImageFailed(i)
        \/ StreamOpened(i)
        \/ Chunk(i)
        \/ StreamEnd(i)
        \/ StreamFailed(i)

SpecTutorView == InitTutorView /\ [][NextTutorView]_vars

\* The sessions of the tutor view alone: questions without an image are
\* sent and answered while sessions are started and left.
NextTopics ==
    \/ HandleStartSession
    \/ HandleChangeTopic
    \/ (view.mounted /\ view.isSessionStarted /\ ~view.isFormatting
           /\ TypeInput)
    \/ (view.mounted /\ view.isSessionStarted /\ ~view.isFormatting
           /\ Len(view.calls) < MaxSends /\ HandleSendMessage)
    \/ \E i \in 1..MaxCalls :
        \/ StreamOpened(i)
        \/ Chunk(i)
        \/ StreamEnd(i)
        \/ StreamFailed(i)

SpecTopics == InitTutorView /\ [][NextTopics]_vars

\* Every promise the handlers await settles: the image conversion, the
\* request, the stream (which ends or fails) and formatCode.
FairTutorView ==
    /\ SpecTutorView
    /\ WF_vars(FormatSettled)
    /\ \A i \in 1..MaxCalls :
          /\ WF_vars(ImageConverted(i) \/ ImageFailed(i))
          /\ WF_vars(StreamOpened(i) \/ StreamFailed(i))
          /\ WF_vars(Chunk(i) \/ StreamEnd(i) \/ StreamFailed(i))

\* --------------------------------------------------------- service worker

\* The service worker of the origin.  worker.caches is the CacheStorage: a
\* function from the names of the caches that exist to their content, and a
\* content is a function from the URLs stored to their responses.
\* worker.puts holds the cache.put calls that were issued and have not run:
\* the fetch handler does not wait for them.
CACHE_NAME == "ai-study-assistant-v2"

\* The cache of the version of the worker that was installed before.
OldCacheName == "ai-study-assistant-v1"

\* "/" is in urlsToCache, "/logo.png" is not.
Urls == {"/", "/logo.png"}

Response(status, body) == [status |-> status, body |-> body]

NoResponse == [status |-> 0, body |-> "none"]

\* What the network answers to a request; NoResponse stands for a fetch
\* that rejects.
NetworkResponses ==
    {Response(200, "fresh"), Response(200, "fresher"),
     Response(404, "not found"), NoResponse}

\* caches.match(request): the response of the first cache, in the order of
\* creation, that holds the URL; NoResponse for undefined.
cachesMatch(caches, url) ==
    IF OldCacheName \in DOMAIN caches /\ url \in DOMAIN caches[OldCacheName]
    THEN caches[OldCacheName][url]
    ELSE IF CACHE_NAME \in DOMAIN caches /\ url \in DOMAIN caches[CACHE_NAME]
    THEN caches[CACHE_NAME][url]
    ELSE NoResponse

\* The worker after its install event: the current cache holds the URLs of
\* urlsToCache; the cache of the version before may still exist.
InitWorker ==
    /\ \E old \in {<<>>, setProperty(<<>>, "/logo.png",
                                     Response(200, "stale"))},
          hasOld \in BOOLEAN :
          worker =
             [caches |->
                 IF hasOld
                 THEN setProperty(
                         setProperty(<<>>, OldCacheName, old),
                         CACHE_NAME,
                         setProperty(<<>>, "/", Response(200, "shell")))
                 ELSE setProperty(<<>>, CACHE_NAME,
                         setProperty(<<>>, "/", Response(200, "shell"))),
              puts |-> {}]
    /\ localStorage = EmptyStorage
    /\ sessionStorage = EmptyStorage
    /\ last = NoCall
    /\ registered = EmptyObject
    /\ now = 0
    /\ planner = PlannerMounted
    /\ tabs = <<>>
    /\ view = <<>>

WorkerFrame ==
    UNCHANGED <<localStorage, sessionStorage, registered, now, planner, tabs,
                view>>

\* The fetch listener that issues cache.put for every network response.
FetchPutAny ==
    \E method \in {"GET", "POST"}, url \in Urls,
       networkResponse \in NetworkResponses :
        LET cachedResponse == cachesMatch(worker.caches, url)
            handled == method = "GET"
            hit == handled /\ cachedResponse # NoResponse
        IN /\ worker' =
                 IF handled /\ ~hit /\ networkResponse # NoResponse
                 THEN [worker EXCEPT
                         !.puts = @ \cup {[url |-> url,
                                           response |-> networkResponse]}]
                 ELSE worker
           /\ last' = [op |-> "fetch", method |-> method, url |-> url,
                       handled |-> handled,
                       fetched |-> handled /\ ~hit,
                       network |-> networkResponse,
                       reply |-> IF ~handled THEN NoResponse
                                 ELSE IF hit THEN cachedResponse
                                 ELSE networkResponse]
           /\ WorkerFrame

\* The fetch listener, for one request and what the network would answer to
\* it.  A request that is not a GET is left to the browser.  last records
\* whether the listener responded (handled), whether it called fetch
\* (fetched) and what it responded with (reply).
Fetch ==
    \E method \in {"GET", "POST"}, url \in Urls,
       networkResponse \in NetworkResponses :
        LET cachedResponse == cachesMatch(worker.caches, url)
            handled == method = "GET"
            hit == handled /\ cachedResponse # NoResponse
        IN /\ worker' =
                 IF handled /\ ~hit /\ networkResponse # NoResponse
                            /\ networkResponse.status = 200
                 THEN [worker EXCEPT
                         !.puts = @ \cup {[url |-> url,
                                           response |-> networkResponse]}]
                 ELSE worker
           /\ last' = [op |-> "fetch", method |-> method, url |-> url,
                       handled |-> handled,
                       fetched |-> handled /\ ~hit,
                       network |-> networkResponse,
                       reply |-> IF ~handled THEN NoResponse
                                 ELSE IF hit THEN cachedResponse
                                 ELSE networkResponse]
           /\ WorkerFrame

\* caches.open(CACHE_NAME).then(cache => cache.put(...)) of a fetch runs:
\* open creates the cache when it does not exist.
CachePut ==
    \E put \in worker.puts :
        /\ worker' =
              [caches |->
                  setProperty(worker.caches, CACHE_NAME,
                     setProperty(IF CACHE_NAME \in DOMAIN worker.caches
                                 THEN worker.caches[CACHE_NAME] ELSE <<>>,
                                 put.url, put.response)),
               puts |-> worker.puts \ {put}]
        /\ last' = [op |-> "cachePut", method |-> "GET", url |-> put.url,
                    handled |-> TRUE, fetched |-> FALSE,
                    network |-> put.response, reply |-> put.response]
        /\ WorkerFrame

\* The activate listener: every cache whose name is not CACHE_NAME is
\* deleted.
Activate ==
    /\ worker' = [worker EXCEPT
          !.caches = [name \in DOMAIN worker.caches \cap {CACHE_NAME} |->
                         worker.caches[name]]]
    /\ last' = [op |-> "activate", method |-> "GET", url |-> "/",
                handled |-> FALSE, fetched |-> FALSE,
                network |-> NoResponse, reply |-> NoResponse]
    /\ WorkerFrame

NextWorker ==
    \/ Fetch
    \/ CachePut
    \/ Activate

SpecWorker == InitWorker /\ [][NextWorker]_vars

\* ------------------------------------------------------------------ helpers

\* The users mapping the text in localStorage stands for.
storedUsers(local) == getUsers(local).value

\* The users slot holds no text, or a text that is not JSON.
Unreadable(local) ==
    ~hasItem(local, USERS_KEY) \/ local[USERS_KEY].kind # "json"

\* The outcome of the call that a step observed, on another localStorage.
OutcomeOn(local, session, call) ==
    CASE call.op = "signUp" ->
            signUp(local, session, call.username, call.password)
      [] call.op = "login" ->
            login(local, session, call.username, call.password)
      [] call.op = "saveStudyPlan" ->
            saveStudyPlan(local, session, call.plan)
      [] call.op = "getStudyPlanHistory" ->
            getStudyPlanHistory(local, session)
      [] OTHER -> logout(local, session)

\* SHA-256 is taken to be collision free; so is its stand-in on Passwords.
DigestInjective ==
    \A p, q \in Passwords : simpleHash(p) = simpleHash(q) => p = q

\* ------------------------------------------------------------------- claims

\* C1: for every username without a record and every password of length
\* >= 6, signUp succeeds and returns the username; and a later login with
\* the credentials of a successful signUp succeeds and returns the username,
\* with or without a logout in between.
C1_SignUpThenLogin ==
    [][/\ (/\ last'.op = "signUp"
           /\ last'.username \notin DOMAIN storedUsers(localStorage)
           /\ Len(last'.password) >= MinPasswordLength)
          => (last'.ok /\ last'.ret = last'.username)
       /\ (/\ last'.op = "login"
           /\ last'.username \in DOMAIN registered
           /\ registered[last'.username] = last'.password)
          => (last'.ok /\ last'.ret = last'.username)]_vars

\* C2: login fails with the one InvalidCredentials message both when the
\* username has no record and when the record's digest differs from the
\* digest of the supplied password; the two outcomes are the same.
C2_LoginFailureUniform ==
    [][last'.op = "login" =>
        LET users == storedUsers(localStorage)
            username == last'.username
            failed == /\ ~last'.ok
                      /\ last'.error = InvalidCredentials
                      /\ last'.ret = NoUser
        IN /\ username \notin DOMAIN users => failed
           /\ (/\ username \in DOMAIN users
               /\ users[username].passwordHash # simpleHash(last'.password))
              => failed]_vars

C2_Witness ==
    /\ last.op = "login"
    /\ last.error = InvalidCredentials
    /\ last.username \in DOMAIN storedUsers(localStorage)

\* C3: signUp with a username that is in the stored mapping fails with
\* DuplicateUser whatever the password, and changes neither localStorage
\* nor sessionStorage.
C3_DuplicateUser ==
    [][(/\ last'.op = "signUp"
        /\ last'.username \in DOMAIN storedUsers(localStorage))
       => /\ ~last'.ok
          /\ last'.error = DuplicateUser
          /\ localStorage' = localStorage
          /\ sessionStorage' = sessionStorage]_vars

C3_Witness ==
    /\ last.op = "signUp"
    /\ last.error = DuplicateUser
    /\ last.username \in DOMAIN storedUsers(localStorage)
    /\ Len(last.password) < MinPasswordLength

\* C4: signUp with a username without a record and a password shorter than
\* 6 fails with WeakPassword and changes neither storage; a password of
\* length 6 or more never fails with WeakPassword.
C4_WeakPassword ==
    [][last'.op = "signUp" =>
        /\ (/\ last'.username \notin DOMAIN storedUsers(localStorage)
            /\ Len(last'.password) < MinPasswordLength)
           => /\ ~last'.ok
              /\ last'.error = WeakPassword
              /\ localStorage' = localStorage
              /\ sessionStorage' = sessionStorage
        /\ Len(last'.password) >= MinPasswordLength
           => last'.error # WeakPassword]_vars

\* C5: a successful signUp adds exactly one record, keyed by the username,
\* with the digest of the password and three empty lists, leaves every
\* other record as it was, sets the session pointer and returns the
\* username.
C5_SignUpEffect ==
    [][(last'.op = "signUp" /\ last'.ok) =>
        LET before == storedUsers(localStorage)
            after == storedUsers(localStorage')
            username == last'.username
        IN /\ username \notin DOMAIN before
           /\ DOMAIN after = DOMAIN before \cup {username}
           /\ after[username] =
                [username |-> username,
                 passwordHash |-> simpleHash(last'.password),
                 studyPlans |-> <<>>,
                 tutorChatHistory |-> <<>>,
                 companionChatHistory |-> <<>>]
           /\ \A other \in DOMAIN before : after[other] = before[other]
           /\ getCurrentUser(sessionStorage') = username
           /\ last'.ret = username]_vars

C5_Witness ==
    /\ last.op = "signUp"
    /\ last.ok
    /\ Cardinality(DOMAIN storedUsers(localStorage)) >= 2

\* C6: logout clears the session pointer and every other entry of
\* sessionStorage and localStorage; the users text after logout is the
\* text stored before, and none is created when none was stored.
C6_LogoutKeepsUsers ==
    [][last'.op = "logout" =>
        /\ getCurrentUser(sessionStorage') = Null
        /\ DOMAIN sessionStorage' = {}
        /\ DOMAIN localStorage' \subseteq {USERS_KEY}
        /\ hasItem(localStorage', USERS_KEY) = hasItem(localStorage, USERS_KEY)
        /\ hasItem(localStorage, USERS_KEY)
           => localStorage'[USERS_KEY] = localStorage[USERS_KEY]]_vars

C6_Witness ==
    /\ last.op = "logout"
    /\ hasItem(localStorage, USERS_KEY)
    /\ Cardinality(DOMAIN storedUsers(localStorage)) >= 2
    /\ DOMAIN localStorage = {USERS_KEY}
    /\ DOMAIN sessionStorage = {}

\* C7: saveStudyPlan by a logged-in user replaces the stored plan of the
\* same id at its position, every other position and the length unchanged,
\* or else puts the plan at the front of the list, which grows by one; after
\* the return the plan is in the stored list.
C7_SavePlanUpsert ==
    [][(/\ last'.op = "saveStudyPlan"
        /\ ~falsyUsername(getCurrentUser(sessionStorage)))
       => LET before == storedPlans(localStorage, sessionStorage)
              after == storedPlans(localStorage', sessionStorage')
              plan == last'.plan
          IN /\ last'.ok
             /\ IF \E i \in 1..Len(before) : before[i].id = plan.id
                THEN \E i \in 1..Len(before) :
                        /\ before[i].id = plan.id
                        /\ after = [before EXCEPT ![i] = plan]
                ELSE after = <<plan>> \o before
             /\ \E i \in 1..Len(after) : after[i] = plan]_vars

C7_Witness ==
    /\ last.op = "saveStudyPlan"
    /\ last.ok
    /\ Len(storedPlans(localStorage, sessionStorage)) = 2
    /\ storedPlans(localStorage, sessionStorage)[2] = last.plan

\* C8: saveStudyPlan without a session pointer fails with NotAuthenticated
\* and leaves localStorage unchanged.
C8_SavePlanNotAuthenticated ==
    [][(/\ last'.op = "saveStudyPlan"
        /\ falsyUsername(getCurrentUser(sessionStorage)))
       => /\ ~last'.ok
          /\ last'.error = NotAuthenticated
          /\ localStorage' = localStorage]_vars

C8_Witness ==
    /\ last.op = "saveStudyPlan"
    /\ last.error = NotAuthenticated
    /\ hasItem(localStorage, USERS_KEY)

\* C9: getStudyPlanHistory returns every task stored as a bare string s, at
\* any position of any day group of any stored plan, as {text: s,
\* completed: false}, and every task stored as an object unchanged.
C9_LegacyTasksNormalized ==
    [][(last'.op = "getStudyPlanHistory" /\ last'.ok) =>
        LET stored == storedPlans(localStorage, sessionStorage)
            returned == last'.history
        IN /\ Len(returned) = Len(stored)
           /\ \A p \in 1..Len(stored) :
                hasWeeklyPlans(stored[p]) =>
                \A w \in 1..Len(stored[p].weekly_plans) :
                \A d \in 1..Len(stored[p].weekly_plans[w].daily_tasks) :
                  LET tasks ==
                        stored[p].weekly_plans[w].daily_tasks[d].tasks
                      result ==
                        returned[p].weekly_plans[w].daily_tasks[d].tasks
                  IN /\ Len(result) = Len(tasks)
                     /\ \A t \in 1..Len(tasks) :
                          result[t] = IF isString(tasks[t])
                                      THEN Task(tasks[t].text, FALSE)
                                      ELSE tasks[t]]_vars

\* C10: getUsers returns the empty mapping, and no error, when the users
\* slot is absent or holds a text that cannot be parsed; signUp, login,
\* saveStudyPlan and getStudyPlanHistory then have the outcome they have
\* on a localStorage without the users slot.
C10_FailOpen ==
    [][(/\ last'.op \in {"signUp", "login", "saveStudyPlan",
                         "getStudyPlanHistory"}
        /\ Unreadable(localStorage))
       => LET empty == OutcomeOn(removeItem(localStorage, USERS_KEY),
                                 sessionStorage, last')
          IN /\ getUsers(localStorage) =
                  [threw |-> FALSE, value |-> EmptyObject]
             /\ last'.ok = empty.ok
             /\ last'.error = empty.error
             /\ last'.ret = empty.ret
             /\ last'.history = empty.history]_vars

\* ------------------------------------------------------- claims C11 .. C20

\* The plan the checkbox (weekIndex, group, taskIndex) promises: the
\* displayed plan with the flag of that one task flipped.
flipClicked(plan, weekIndex, group, taskIndex) ==
    [plan EXCEPT !.weekly_plans[weekIndex].daily_tasks[group]
                    .tasks[taskIndex].completed = ~@]

\* The stored plan of the current user with the id, NoPlan when none.
storedPlan(local, session, id) ==
    LET plans == storedPlans(local, session) IN
    IF findIndex(plans, id) > 0 THEN plans[findIndex(plans, id)] ELSE NoPlan

\* C11: two handleToggleTask steps in a row on the same checkbox leave the
\* displayed plan and the stored plan equal, in every field, to the plan
\* displayed before the first of the two.
C11_ToggleTwiceRestores ==
    [][(last'.op = "handleToggleTask" /\ last'.repeat)
       => /\ planner'.plan = last.before
          /\ storedPlan(localStorage', sessionStorage', last.before.id)
                = last.before]_vars

C11_Witness ==
    /\ last.op = "handleToggleTask"
    /\ last.repeat
    /\ last.before # planner.plan
    /\ \E w \in 1..Len(planner.plan.weekly_plans) :
       \E d \in 1..Len(planner.plan.weekly_plans[w].daily_tasks) :
       \E t \in 1..Len(planner.plan.weekly_plans[w].daily_tasks[d].tasks) :
          planner.plan.weekly_plans[w].daily_tasks[d].tasks[t].completed
    /\ storedPlan(localStorage, sessionStorage, planner.plan.id)
          = planner.plan

\* C12: a handleToggleTask step flips the completed flag of exactly the
\* clicked task (task taskIndex of the clicked day group of week weekIndex)
\* and of no other task, also when another group of the week carries the
\* same day label, and stores the whole plan.
C12_ToggleFlipsClicked ==
    [][last'.op = "handleToggleTask"
       => LET clicked == flipClicked(planner.plan, last'.weekIndex,
                                     last'.group, last'.taskIndex)
          IN /\ planner'.plan = clicked
             /\ storedPlan(localStorage', sessionStorage', clicked.id)
                   = clicked]_vars

\* C16: the stored list of a user never holds two plans with one id, and a
\* handleToggleTask step saves the plan under the id it had.
C16_UniquePlanIds ==
    /\ [](\A i, j \in 1..Len(storedPlans(localStorage, sessionStorage)) :
            storedPlans(localStorage, sessionStorage)[i].id
               = storedPlans(localStorage, sessionStorage)[j].id => i = j)
    /\ [][last'.op = "handleToggleTask"
          => /\ planner'.plan.id = planner.plan.id
             /\ {storedPlans(localStorage', sessionStorage')[i].id :
                   i \in 1..Len(storedPlans(localStorage', sessionStorage'))}
                = {storedPlans(localStorage, sessionStorage)[i].id :
                     i \in 1..Len(storedPlans(localStorage, sessionStorage))}
                  \cup {planner.plan.id}]_vars

C16_Witness ==
    /\ last.op = "handleToggleTask"
    /\ Len(storedPlans(localStorage, sessionStorage)) = 2
    /\ storedPlans(localStorage, sessionStorage)[1] = planner.plan
    /\ storedPlans(localStorage, sessionStorage)[1] # last.before

\* C13: a saveTutorChatSession step with fewer than 2 messages leaves
\* storage unchanged; with 2 or more messages and a logged-in user it
\* replaces, in place, the stored session of the same (curriculum, subject)
\* or appends a new session at the end, keeps every other session, and the
\* stored session holds exactly the given messages.
C13_SaveTutorSession ==
    [][last'.op = "saveTutorChatSession"
       => LET chat == last'.plan
              before == getTutorChatHistory(localStorage,
                                            sessionStorage).history
              after == getTutorChatHistory(localStorage',
                                           sessionStorage').history
              same(s) == /\ s.curriculum = chat.curriculum
                         /\ s.subject = chat.subject
          IN /\ Len(chat.messages) < 2
                => /\ localStorage' = localStorage
                   /\ sessionStorage' = sessionStorage
             /\ (/\ Len(chat.messages) >= 2
                 /\ ~falsyUsername(getCurrentUser(sessionStorage)))
                => IF \E i \in 1..Len(before) : same(before[i])
                   THEN /\ Len(after) = Len(before)
                        /\ \A i \in 1..Len(before) :
                              IF same(before[i])
                              THEN /\ same(after[i])
                                   /\ after[i].messages = chat.messages
                              ELSE after[i] = before[i]
                   ELSE /\ Len(after) = Len(before) + 1
                        /\ SubSeq(after, 1, Len(before)) = before
                        /\ same(after[Len(after)])
                        /\ after[Len(after)].messages = chat.messages]_vars

C13_Witness ==
    LET stored == getTutorChatHistory(localStorage, sessionStorage).history
    IN /\ last.op = "saveTutorChatSession"
       /\ Len(last.plan.messages) = 3
       /\ Len(stored) = 2
       /\ stored[1].curriculum = last.plan.curriculum
       /\ stored[1].subject = last.plan.subject
       /\ stored[1].messages = last.plan.messages
       /\ Len(stored[2].messages) = 2

\* C14: a saveCompanionChatHistory step with zero or one message leaves the
\* stored companion history unchanged; with two or more messages and a
\* logged-in user the stored companion history is exactly the given list.
C14_SaveCompanionHistory ==
    [][last'.op = "saveCompanionChatHistory"
       => LET messages == last'.plan.messages IN
          /\ Len(messages) <= 1 => localStorage' = localStorage
          /\ (/\ Len(messages) >= 2
              /\ ~falsyUsername(getCurrentUser(sessionStorage)))
             => getCompanionChatHistory(localStorage',
                                        sessionStorage').history
                   = messages]_vars

C14_Witness ==
    /\ last.op = "saveCompanionChatHistory"
    /\ Len(last.plan.messages) = 2
    /\ getCurrentUser(sessionStorage) = "bob"
    /\ getCompanionChatHistory(localStorage, sessionStorage).history
          = last.plan.messages

\* C15: in every reachable state the tutor chat history of every stored
\* user holds at most one session for a (curriculum, subject) pair.
C15_OneSessionPerTopic ==
    \A username \in DOMAIN storedUsers(localStorage) :
        LET h == listOf(storedUsers(localStorage)[username],
                        "tutorChatHistory")
        IN \A i, j \in 1..Len(h) :
              (/\ h[i].curriculum = h[j].curriculum
               /\ h[i].subject = h[j].subject) => i = j

C15_Witness ==
    LET stored == getTutorChatHistory(localStorage, sessionStorage).history
    IN /\ last.op = "saveTutorChatSession"
       /\ Len(last.plan.messages) = 2
       /\ Len(stored) = 2
       /\ stored[1].curriculum = last.plan.curriculum
       /\ Len(stored[2].messages) = 3
       /\ getCurrentUser(sessionStorage) = "bob"

C18_LastWriteWins ==
    [][last'.op = "write"
       => LET t == last'.tab IN
          storedUsers(localStorage')["alice"].studyPlans
             = upsertPlan(tabs[t].users["alice"].studyPlans,
                          tabs[t].plan)]_vars

C18_Witness ==
    /\ \A t \in Tabs : tabs[t].pc = "idle"
    /\ tabs["tab1"].saved = {Plan1}
    /\ tabs["tab2"].saved = {Plan2}
    /\ storedUsers(localStorage)["alice"].studyPlans = <<Plan2>>

\* The concatenation of the texts of a sequence of chunks, in order.
RECURSIVE concat(_)
concat(chunks) ==
    IF chunks = <<>> THEN <<>>
    ELSE concat(SubSeq(chunks, 1, Len(chunks) - 1)) \o chunks[Len(chunks)]

\* C19: when the k-th chunk of a response has been processed, the model
\* message of that response holds the concatenation of chunks 1..k in
\* arrival order, it is the last element of the list, and every other
\* message of the list is as it was.
C19_StreamKeepsOrder ==
    [][last'.op = "chunk"
       => LET call == view'.calls[last'.call] IN
          /\ call.slot = Len(view'.messages)
          /\ view'.messages[call.slot].text = concat(call.chunks)
          /\ Len(view'.messages) = Len(view.messages)
          /\ \A j \in 1..Len(view.messages) :
                j # call.slot => view'.messages[j] = view.messages[j]]_vars

\* C20: an invocation of handleSendMessage that has issued its request
\* (it is opening or reading the stream) is the only unfinished one: every
\* invocation that passed the guard before it has finished.
C20_OneStreamAtATime ==
    \A i, j \in 1..Len(view.calls) :
        (i < j /\ view.calls[j].pc \in {"opening", "streaming"})
           => view.calls[i].pc = "done"

\* ------------------------------------------------------- claims C21 .. C30

\* C27: in the planner the displayed plan is in the stored list of the
\* current user exactly when isPlanSaved is true; generating and toggling
\* alone never store the plan.
C27_StoredIffSaved ==
    planner.plan # NoPlan
       => (planner.isPlanSaved
             <=> storedPlan(localStorage, sessionStorage, planner.plan.id)
                    = planner.plan)

\* C25: when a signUp writes, every record of the stored mapping is still
\* there afterwards with all its plans, and the username was still new, so
\* that of two overlapping signUp calls for one username at most one
\* returns success.
C25_SignUpKeepsData ==
    [][last'.op = "signUpEnd"
       => /\ last'.username \notin DOMAIN storedUsers(localStorage)
          /\ \A u \in DOMAIN storedUsers(localStorage) :
                /\ u \in DOMAIN storedUsers(localStorage')
                /\ storedUsers(localStorage')[u]
                      = storedUsers(localStorage)[u]]_vars

\* C29: in every reachable state a session pointer that is set names a
\* username with a record in the stored mapping.
C29_PointerHasRecord ==
    \A t \in DOMAIN tabs :
        ~falsyUsername(getCurrentUser(tabs[t].session))
           => getCurrentUser(tabs[t].session)
                 \in DOMAIN storedUsers(localStorage)

\* The list a save operation targets.
targetOf(op) ==
    CASE op = "saveStudyPlan" -> "studyPlans"
      [] op = "saveTutorChatSession" -> "tutorChatHistory"
      [] OTHER -> "companionChatHistory"

\* C28: a save operation changes only the list it targets in the record of
\* the current user: the username, the passwordHash and the two other lists
\* of that record, the record of every other user and the session pointer
\* are as before; and no operation other than signUp sets or changes a
\* passwordHash.
C28_SaveChangesOneList ==
    [][LET before == storedUsers(localStorage)
           after == storedUsers(localStorage')
           me == getCurrentUser(sessionStorage)
       IN /\ last'.op \in {"saveStudyPlan", "saveTutorChatSession",
                            "saveCompanionChatHistory"}
                => /\ sessionStorage' = sessionStorage
                   /\ DOMAIN after = DOMAIN before
                   /\ \A u \in DOMAIN before :
                         IF u = me
                         THEN /\ DOMAIN after[u] \subseteq
                                    DOMAIN before[u] \cup {targetOf(last'.op)}
                              /\ \A f \in DOMAIN before[u]
                                            \ {targetOf(last'.op)} :
                                    /\ f \in DOMAIN after[u]
                                    /\ after[u][f] = before[u][f]
                         ELSE after[u] = before[u]
          /\ last'.op # "signUp"
                => /\ DOMAIN after = DOMAIN before
                   /\ \A u \in DOMAIN before :
                         after[u].passwordHash = before[u].passwordHash
      ]_vars

\* bob, whose record has plans and no companion list, has stored a tutor
\* session.
C28_Witness ==
    /\ last.op = "saveTutorChatSession"
    /\ getCurrentUser(sessionStorage) = "bob"
    /\ Len(storedUsers(localStorage)["bob"].studyPlans) >= 1
    /\ "companionChatHistory" \notin DOMAIN storedUsers(localStorage)["bob"]
    /\ "tutorChatHistory" \in DOMAIN storedUsers(localStorage)["bob"]
    /\ Len(storedUsers(localStorage)["bob"].tutorChatHistory) >= 1

\* The messages of the session stored for a user under a pair, <<>> when
\* there is none.
storedSession(local, username, topic) ==
    LET users == storedUsers(local)
        history == IF username \in DOMAIN users
                   THEN listOf(users[username], "tutorChatHistory")
                   ELSE <<>>
        found == findSession(history, topic)
    IN IF found > 0 THEN history[found].messages ELSE <<>>

\* C23: when Start Session is clicked for a pair whose session was left
\* through Change Topic with at least two messages, the view shows exactly
\* the messages it held at that Change Topic, in that order; for a pair
\* with no stored session it shows exactly one message, the greeting.
C23_SessionRoundTrip ==
    [][last'.op = "handleStartSession"
       => view'.messages =
             IF Len(view.left[view'.details]) >= 2
             THEN view.left[view'.details]
             ELSE <<Greeting>>]_vars

\* A session with a question and an answer was left and is shown again.
C23_Witness ==
    /\ last.op = "handleStartSession"
    /\ Len(view.messages) >= 3
    /\ view.messages = view.left[view.details]
    /\ view.messages[3].text = <<"1", "2">>

\* C22: when a started tutor session that holds at least two messages is
\* unmounted, by a switch of view or by logout, the history stored for the
\* user who was logged in holds, under the pair of the session, exactly the
\* messages the view held.
C22_SavedWhenLeft ==
    [][(/\ last'.op \in {"switchView", "handleLogout"}
        /\ view.isSessionStarted
        /\ Len(view.messages) >= 2)
       => storedSession(localStorage', getCurrentUser(sessionStorage),
                        view.details) = view.messages]_vars

\* C24: a chunk of a stream that was started in a session of another pair
\* leaves the messages of the session that is displayed as they are.
C24_StreamStaysInSession ==
    [][(/\ last'.op = "chunk"
        /\ view.isSessionStarted
        /\ \E st \in view.stale :
              st.call = last'.call /\ st.topic # view.details)
       => view'.messages = view.messages]_vars

\* C26: isTyping and isFormatting are never both true.
C26_SendExcludesFormat ==
    ~(view.isTyping /\ view.isFormatting)

\* C21, the busy flags: under FairTutorView isTyping and isFormatting, once
\* true, are false again later.
C21_BusyFlagClears ==
    /\ view.isTyping ~> ~view.isTyping
    /\ view.isFormatting ~> ~view.isFormatting

\* C21: a failure of formatCode is rendered in the view: the step that
\* handles it adds an error message to the conversation.
C21_FailureRendered ==
    [][last'.op = "formatRejected"
       => view'.messages # view.messages]_vars

\* C30: a GET with a cached match is answered with the cached response and
\* fetch is not called; on a miss the network response is the answer and a
\* put of it is issued only when its status is 200; a request that is not
\* a GET is not answered by the worker and changes no cache; a put stores a
\* response of status 200 in the current cache only; activation deletes
\* every cache but the current one and leaves that one as it is.
C30_CacheFirst ==
    [][LET hit == cachesMatch(worker.caches, last'.url) IN
       /\ (last'.op = "fetch" /\ last'.method = "GET" /\ hit # NoResponse)
             => /\ last'.reply = hit
                /\ ~last'.fetched
                /\ worker' = worker
       /\ (last'.op = "fetch" /\ last'.method = "GET" /\ hit = NoResponse)
             => /\ last'.fetched
                /\ last'.reply = last'.network
                /\ worker'.caches = worker.caches
                /\ worker'.puts \ worker.puts \subseteq
                      {[url |-> last'.url, response |-> last'.network]}
                /\ \A put \in worker'.puts \ worker.puts :
                      put.response.status = 200
       /\ (last'.op = "fetch" /\ last'.method # "GET")
             => /\ ~last'.handled
                /\ last'.reply = NoResponse
                /\ worker' = worker
       /\ last'.op = "cachePut"
             => /\ last'.reply.status = 200
                /\ \A name \in DOMAIN worker.caches \ {CACHE_NAME} :
                      /\ name \in DOMAIN worker'.caches
                      /\ worker'.caches[name] = worker.caches[name]
       /\ last'.op = "activate"
             => /\ DOMAIN worker'.caches = DOMAIN worker.caches \cap {CACHE_NAME}
                /\ \A name \in DOMAIN worker'.caches :
                      worker'.caches[name] = worker.caches[name]
      ]_vars

\* After the old cache was deleted, a GET of a URL that no cache holds was
\* answered 404 by the network, and nothing is waiting to be put.
C30_Witness ==
    /\ last.op = "fetch"
    /\ last.method = "GET"
    /\ last.url = "/logo.png"
    /\ last.fetched
    /\ last.reply.status = 404
    /\ worker.puts = {}
    /\ DOMAIN worker.caches = {CACHE_NAME}
    /\ "/logo.png" \notin DOMAIN worker.caches[CACHE_NAME]

====
